---- MODULE Spec2Model ----
(***************************************************************************)
(* BRD decoder tools: the per-byte codec (brd_decrypt.py,                  *)
(* simple_brd_decode.py, batch_brd_decode.py), the buffer decoder, the     *)
(* content analysis, the single-file tools, the batch orchestrator         *)
(* (batch_brd_decode.py) and the GUI (brd_decoder_gui.py).                 *)
(*                                                                         *)
(* Seven specifications share the module:                                  *)
(*   SpecByte    - decode_byte / decode_brd_byte applied to single bytes   *)
(*   SpecBuffer  - is_encoded and BRDDecryptor.decode_file on a buffer,    *)
(*                 and on the buffer it returned                           *)
(*   SpecAnalyze - analyze_decoded_content on a buffer                     *)
(*   SpecDecrypt - decrypt_file and the simple decode_brd_file on a file   *)
(*   Spec        - one run of the batch command: main, process_directory,  *)
(*                 process_files, decode_file over a small file system,    *)
(*                 any I/O call of decode_file failing or not              *)
(*   SpecRerun   - the batch command run repeatedly, no I/O call failing   *)
(*   SpecGui     - the GUI: button presses and decode worker threads       *)
(***************************************************************************)
EXTENDS Integers, Sequences, FiniteSets, TLC

VARIABLES
    \* ---- SpecByte
    bpc,            \* position of the byte-level caller
    byte_a,         \* first byte handed to decode_byte
    byte_b,         \* second byte handed to decode_byte
    dec_a,          \* BRDDecryptor.decode_byte(byte_a)
    dec_b,          \* BRDDecryptor.decode_byte(byte_b)
    dec_batch,      \* BatchBRDDecoder.decode_brd_byte(byte_a)
    dec_simple,     \* simple_brd_decode.decode_brd_byte(byte_a)
    comb_a,         \* the local  combined  of decode_byte(byte_a)
    \* ---- SpecBuffer
    fpc,            \* position inside is_encoded / decode_file
    caller_data,    \* the caller's buffer
    input_data,     \* parameter input_data of decode_file
    enc_flag,       \* value returned by is_encoded(input_data)
    enc_simple,     \* value returned by simple_brd_decode.is_brd_encoded
    decoded_data,   \* the bytearray decode_file builds
    ret_data,       \* value returned by decode_file
    first_ret,      \* the result that was fed back as a new input, if one was
    \* ---- Spec (batch_brd_decode.py)
    pc,             \* position inside main
    run,            \* number of the current invocation of the command
    args,           \* parsed command line: inputs, output, suffix, overwrite
    fs,             \* the files that exist: path -> bytes
    dirs,           \* the directories that exist
    directories,    \* main: directories still to process
    all_files,      \* main / process_files: file_list still to process
    output_dir,     \* local output_dir of process_directory / process_files
    brd_files,      \* process_directory: files of the loop still to process
    stats,          \* BatchBRDDecoder.stats
    log,            \* the per-file lines printed so far, with what the item did
    io_failed,      \* whether an I/O call has failed so far
    exit_code,      \* status the command exited with
    \* ---- SpecAnalyze, SpecDecrypt (brd_decrypt.py, simple_brd_decode.py)
    tpc,            \* position of the caller of the single-file tools
    t_input,        \* the buffer analysed / the bytes of the input file
    t_output,       \* output_path of decrypt_file (None: not given)
    t_analysis,     \* the dictionary analyze_decoded_content returned
    t_written,      \* what decrypt_file left at output_path: no or one content
    t_ret,          \* value returned by decrypt_file
    s_written,      \* what decode_brd_file left at output_file
    s_found,        \* found_sections of decode_brd_file
    \* ---- SpecGui (brd_decoder_gui.py)
    input_var,      \* self.input_var: the input path typed or browsed
    output_var,     \* self.output_var: the output path typed or browsed
    threads,        \* the decode_file_worker threads started so far
    after_queue,    \* callbacks root.after has scheduled and not yet run
    progress_shown, \* whether the progress bar is gridded and running
    auto_output,    \* self.auto_output: the checkbox
    dialog,         \* the message box shown last
    gui_fs          \* the files the GUI works on: path -> bytes

byteVars == <<bpc, byte_a, byte_b, dec_a, dec_b, dec_batch, dec_simple, comb_a>>
bufVars  == <<fpc, caller_data, input_data, enc_flag, enc_simple, decoded_data, ret_data,
              first_ret>>
batchVars == <<pc, run, args, fs, dirs, directories, all_files, output_dir, brd_files,
               stats, log, io_failed, exit_code>>
toolVars == <<tpc, t_input, t_output, t_analysis, t_written, t_ret, s_written, s_found>>
guiVars == <<input_var, output_var, auto_output, threads, after_queue, progress_shown,
             dialog, gui_fs>>
vars == <<byteVars, bufVars, batchVars, toolVars, guiVars>>

\* "not yet computed" marker for results
None == "None"

-----------------------------------------------------------------------------
\* Python integer operators used by the codec

Bytes == 0 .. 255

Pow2(n) == 2 ^ n

\* x >> n
Shr(x, n) == x \div Pow2(n)

\* x << n
Shl(x, n) == x * Pow2(n)

\* ~x
BitNot(x) == (-x) - 1

\* x & y for y >= 0 (x may be negative: two's complement, as Python ints)
RECURSIVE BitAnd(_, _)
BitAnd(x, y) ==
    IF y = 0 THEN 0
    ELSE (x % 2) * (y % 2) + 2 * BitAnd(x \div 2, y \div 2)

\* x | y for x, y >= 0
RECURSIVE BitOr(_, _)
BitOr(x, y) ==
    IF x = 0 THEN y
    ELSE IF y = 0 THEN x
    ELSE (IF (x % 2) + (y % 2) > 0 THEN 1 ELSE 0) + 2 * BitOr(x \div 2, y \div 2)

-----------------------------------------------------------------------------
\* brd_decrypt.py: BRDDecryptor

ENCODED_SIGNATURE == <<35, 226, 99, 40>>

\* is_encoded comparing three bytes of the signature only
is_encoded_three(data) ==
    IF Len(data) < 4 THEN FALSE
    ELSE SubSeq(data, 1, 3) = SubSeq(ENCODED_SIGNATURE, 1, 3)

is_encoded(data) ==
    IF Len(data) < 4 THEN FALSE
    ELSE SubSeq(data, 1, 4) = ENCODED_SIGNATURE

\* decode_byte without the CR / LF / NUL pass-through
decode_byte_nopass(byte_val) ==
    BitAnd(BitNot(BitOr(BitAnd(Shr(byte_val, 6), 3), BitAnd(Shl(byte_val, 2), 255))), 255)

\* decode_byte that drops the two high bits instead of moving them down
decode_byte_nohigh(byte_val) ==
    IF byte_val \in {13, 10, 0} THEN byte_val
    ELSE BitAnd(BitNot(BitAnd(Shl(byte_val, 2), 255)), 255)

decode_byte(byte_val) ==
    IF byte_val \in {13, 10, 0} THEN byte_val
    ELSE LET high_bits    == BitAnd(Shr(byte_val, 6), 3)
             shifted_left == BitAnd(Shl(byte_val, 2), 255)
             combined     == BitOr(high_bits, shifted_left)
             decoded      == BitAnd(BitNot(combined), 255)
         IN  decoded

\* lines 44-46 with the two high bits dropped: a plain shift
combined_bits_shift(byte_val) == BitAnd(Shl(byte_val, 2), 255)

\* lines 44-46 of decode_byte: high_bits, shifted_left, combined
combined_bits(byte_val) ==
    LET high_bits    == BitAnd(Shr(byte_val, 6), 3)
        shifted_left == BitAnd(Shl(byte_val, 2), 255)
        combined     == BitOr(high_bits, shifted_left)
    IN  combined

\* simple_brd_decode.py

simple_is_brd_encoded(data) ==
    IF Len(data) < 4 THEN FALSE
    ELSE data[1] = 35 /\ data[2] = 226 /\ data[3] = 99 /\ data[4] = 40

simple_decode_brd_byte(byte_val) ==
    IF byte_val \in {13, 10, 0} THEN byte_val
    ELSE LET high_bits == BitAnd(Shr(byte_val, 6), 3)
             shifted   == BitAnd(Shl(byte_val, 2), 255)
             combined  == BitOr(high_bits, shifted)
             decoded   == BitAnd(BitNot(combined), 255)
         IN  decoded

\* batch_brd_decode.py: BatchBRDDecoder

BRD_SIGNATURE == <<35, 226, 99, 40>>

is_brd_encoded(data) ==
    Len(data) >= 4 /\ SubSeq(data, 1, 4) = BRD_SIGNATURE

decode_brd_byte(byte_val) ==
    IF byte_val \in {13, 10, 0} THEN byte_val
    ELSE LET high_bits == BitAnd(Shr(byte_val, 6), 3)
             shifted   == BitAnd(Shl(byte_val, 2), 255)
             combined  == BitOr(high_bits, shifted)
             decoded   == BitAnd(BitNot(combined), 255)
         IN  decoded

-----------------------------------------------------------------------------
\* SpecByte: the codec applied to single bytes

InitByteIdle ==
    /\ bpc = "idle"
    /\ byte_a = 0 /\ byte_b = 0
    /\ dec_a = None /\ dec_b = None /\ dec_batch = None /\ dec_simple = None
    /\ comb_a = None

InitBufIdle ==
    /\ fpc = "idle"
    /\ caller_data = <<>> /\ input_data = <<>>
    /\ enc_flag = None /\ enc_simple = None
    /\ decoded_data = <<>> /\ ret_data = None
    /\ first_ret = {}

ZeroStats ==
    [total_files |-> 0, encoded_files |-> 0, decoded_files |-> 0, errors |-> 0, skipped |-> 0]

InitBatchIdle ==
    /\ pc = "idle" /\ run = 0
    /\ args = [inputs |-> <<>>, output |-> None, suffix |-> "_decoded", overwrite |-> FALSE]
    /\ fs = <<>> /\ dirs = {}
    /\ directories = <<>> /\ all_files = <<>>
    /\ output_dir = None /\ brd_files = {}
    /\ stats = ZeroStats /\ log = {}
    /\ io_failed = FALSE /\ exit_code = None

InitToolIdle ==
    /\ tpc = "idle"
    /\ t_input = <<>> /\ t_output = None
    /\ t_analysis = None /\ t_written = {} /\ t_ret = None
    /\ s_written = {} /\ s_found = None

InitGuiIdle ==
    /\ input_var = <<>> /\ output_var = <<>>
    /\ auto_output = TRUE
    /\ threads = <<>> /\ after_queue = 0
    /\ progress_shown = FALSE
    /\ dialog = None
    /\ gui_fs = <<>>

InitByte ==
    /\ bpc = "first"
    /\ byte_a \in Bytes
    /\ byte_b = 0
    /\ dec_a = None /\ dec_b = None /\ dec_batch = None /\ dec_simple = None
    /\ comb_a = None
    /\ InitBufIdle
    /\ InitBatchIdle
    /\ InitToolIdle /\ InitGuiIdle

\* each front end's copy of the byte transform applied to byte_a
DecodeFirst ==
    /\ bpc = "first"
    /\ dec_a' = decode_byte(byte_a)
    /\ dec_batch' = decode_brd_byte(byte_a)
    /\ dec_simple' = simple_decode_brd_byte(byte_a)
    /\ comb_a' = IF byte_a \in {13, 10, 0} THEN None ELSE combined_bits(byte_a)
    /\ bpc' = "second"
    /\ UNCHANGED <<byte_a, byte_b, dec_b, bufVars, batchVars, toolVars, guiVars>>

\* decode_byte applied to another byte
DecodeSecond ==
    /\ bpc = "second"
    /\ \E b \in Bytes :
          /\ byte_b' = b
          /\ dec_b' = decode_byte(b)
    /\ bpc' = "done"
    /\ UNCHANGED <<byte_a, dec_a, dec_batch, dec_simple, comb_a, bufVars, batchVars, toolVars, guiVars>>

NextByte == DecodeFirst \/ DecodeSecond

SpecByte == InitByte /\ [][NextByte]_vars

-----------------------------------------------------------------------------
\* SpecBuffer: is_encoded and BRDDecryptor.decode_file on one buffer

MaxLen == 5

ByteAlphabet == {35, 226, 99, 40, 65, 10}

RECURSIVE SeqsUpTo(_, _)
SeqsUpTo(S, n) ==
    IF n = 0 THEN {<<>>}
    ELSE LET shorter == SeqsUpTo(S, n - 1)
         IN  shorter \cup {Append(q, x) : q \in {r \in shorter : Len(r) = n - 1}, x \in S}

Buffers == SeqsUpTo(ByteAlphabet, MaxLen) \cup {<<0, 1, 2>>}

InitBuffer ==
    /\ fpc = "check"
    /\ caller_data \in Buffers
    /\ input_data = caller_data
    /\ enc_flag = None /\ enc_simple = None
    /\ decoded_data = <<>> /\ ret_data = None
    /\ first_ret = {}
    /\ InitByteIdle
    /\ InitBatchIdle
    /\ InitToolIdle /\ InitGuiIdle

\* a front end asks whether the buffer is encoded
CheckEncoded ==
    /\ fpc = "check"
    /\ enc_flag' = is_encoded(input_data)
    /\ enc_simple' = simple_is_brd_encoded(input_data)
    /\ fpc' = "call"
    /\ UNCHANGED <<caller_data, input_data, decoded_data, ret_data, first_ret,
                   byteVars, batchVars, toolVars, guiVars>>

\* decode_file, up to the loop: a buffer without signature is returned as is
DecodeFileEnter ==
    /\ fpc = "call"
    /\ IF ~ is_encoded(input_data)
          THEN /\ ret_data' = input_data
               /\ fpc' = "returned"
               /\ UNCHANGED decoded_data
          ELSE /\ decoded_data' = <<>>
               /\ fpc' = "loop"
               /\ UNCHANGED ret_data
    /\ UNCHANGED <<caller_data, input_data, enc_flag, enc_simple, first_ret,
                   byteVars, batchVars, toolVars, guiVars>>

\* decode_file keeping the four signature bytes as they are
AppendDecoded_keepsig(acc, data) ==
    IF Len(acc) < 4 THEN Append(acc, data[Len(acc) + 1])
    ELSE Append(acc, decode_byte(data[Len(acc) + 1]))

\* one iteration of  for byte_val in input_data: decoded_data.append(decode_byte(byte_val))
AppendDecoded(acc, data) ==
    Append(acc, decode_byte(data[Len(acc) + 1]))

DecodeFileLoop ==
    /\ fpc = "loop"
    /\ Len(decoded_data) < Len(input_data)
    /\ decoded_data' = AppendDecoded(decoded_data, input_data)
    /\ UNCHANGED <<fpc, caller_data, input_data, enc_flag, enc_simple, ret_data, first_ret,
                   byteVars, batchVars, toolVars, guiVars>>

DecodeFileReturn ==
    /\ fpc = "loop"
    /\ Len(decoded_data) = Len(input_data)
    /\ ret_data' = decoded_data
    /\ fpc' = "returned"
    /\ UNCHANGED <<caller_data, input_data, enc_flag, enc_simple, decoded_data, first_ret,
                   byteVars, batchVars, toolVars, guiVars>>

\* the buffer decode_file returned is handed to the tool again as its input
FeedBack ==
    /\ fpc = "returned"
    /\ first_ret = {}
    /\ first_ret' = {ret_data}
    /\ caller_data' = ret_data
    /\ input_data' = ret_data
    /\ enc_flag' = None /\ enc_simple' = None
    /\ decoded_data' = <<>>
    /\ ret_data' = None
    /\ fpc' = "check"
    /\ UNCHANGED <<byteVars, batchVars, toolVars, guiVars>>

NextBuffer ==
    \/ CheckEncoded
    \/ DecodeFileEnter
    \/ DecodeFileLoop
    \/ DecodeFileReturn
    \/ FeedBack

SpecBuffer == InitBuffer /\ [][NextBuffer]_vars

-----------------------------------------------------------------------------
\* pathlib and glob: a path is a directory and a file name; a file name is a
\* sequence of pieces, a "." being a piece of its own

Path(d, n) == [dir |-> d, name |-> n]

\* the output path of an item that never derived one
NoPath == Path("", <<>>)

\* name.rfind('.') as a position 1 .. Len(name); 0 when the name has no dot
rfind_dot(name) ==
    LET dots == {i \in 1 .. Len(name) : name[i] = "."}
    IN  IF dots = {} THEN 0 ELSE CHOOSE i \in dots : \A j \in dots : j <= i

\* PurePath.suffix: from the last dot on, unless the dot starts or ends the name
path_suffix(name) ==
    LET i == rfind_dot(name)
    IN  IF 1 < i /\ i < Len(name) THEN SubSeq(name, i, Len(name)) ELSE <<>>

\* PurePath.stem
path_stem(name) ==
    LET i == rfind_dot(name)
    IN  IF 1 < i /\ i < Len(name) THEN SubSeq(name, 1, i - 1) ELSE name

\* the suffix put after the extension instead of before it
output_name_after_ext(name, suffix) == name \o <<suffix>>

\* f"{input_file.stem}{suffix}{input_file.suffix}"
output_name(name, suffix) == path_stem(name) \o <<suffix>> \o path_suffix(name)

\* the files of directory d that match "*.brd"
glob_brd(files, d) ==
    {p \in DOMAIN files :
        /\ p.dir = d
        /\ Len(p.name) >= 2
        /\ SubSeq(p.name, Len(p.name) - 1, Len(p.name)) = <<".", "brd">>}

\* open(path, 'wb'); f.write(data)
write_file(files, p, data) ==
    [q \in (DOMAIN files) \cup {p} |-> IF q = p THEN data ELSE files[q]]

-----------------------------------------------------------------------------
\* batch_brd_decode.py: BatchBRDDecoder.decode_file

Inc(st, key) == [st EXCEPT ![key] = @ + 1]

\* for byte in data: decoded_data.append(self.decode_brd_byte(byte))
decode_data(data) == [i \in 1 .. Len(data) |-> decode_brd_byte(data[i])]

\* I/O failures the environment can raise inside decode_file: reading the
\* input, opening the output, writing the opened (created, emptied) output
Faults == {"none", "read", "open", "write"}

\* line 52 with the overwrite flag read the wrong way round
output_blocks_inverted(files, output_path, overwrite) ==
    output_path \in DOMAIN files /\ overwrite

\* line 52 without the test
output_blocks_never(files, output_path, overwrite) == FALSE

\* line 52: output_path.exists() and not overwrite
output_blocks(files, output_path, overwrite) ==
    output_path \in DOMAIN files /\ ~ overwrite

\* an except clause that counts nothing and lets the exception go on
except_handler_reraise(st, files, err, wrote) ==
    [stats |-> st, fs |-> files, msg |-> "TRACEBACK", err |-> err,
     read |-> TRUE, wrote |-> wrote, raised |-> TRUE]

\* an except clause that prints ERROR and counts nothing
except_handler_nocount(st, files, err, wrote) ==
    [stats |-> st, fs |-> files, msg |-> "ERROR", err |-> err,
     read |-> TRUE, wrote |-> wrote, raised |-> FALSE]

\* lines 83-86: except Exception: print ERROR, count it, return False
except_handler(st, files, err, wrote) ==
    [stats |-> Inc(st, "errors"), fs |-> files, msg |-> "ERROR", err |-> err,
     read |-> TRUE, wrote |-> wrote, raised |-> FALSE]

\* what one call of decode_file does: the new stats and files, the line it
\* prints (msg), the exception raised inside its try block (err), whether it
\* reached the open of the input (read) and of the output (wrote), and whether
\* an exception leaves the call (raised)
decode_file(st, files, ds, input_path, output_path, overwrite, fault) ==
    IF output_blocks(files, output_path, overwrite)
    THEN [stats |-> Inc(st, "skipped"), fs |-> files, msg |-> "SKIP_EXISTS",
          err |-> "none", read |-> FALSE, wrote |-> FALSE, raised |-> FALSE]
    ELSE IF fault = "read" \/ input_path \notin DOMAIN files
    THEN except_handler(st, files, IF fault = "read" THEN "read" ELSE "missing", FALSE)
    ELSE LET data == files[input_path] IN
         IF ~ is_brd_encoded(data)
         THEN [stats |-> Inc(st, "skipped"), fs |-> files, msg |-> "SKIP_NOT_ENCODED",
               err |-> "none", read |-> TRUE, wrote |-> FALSE, raised |-> FALSE]
         ELSE LET st2 == Inc(st, "encoded_files")
                  decoded == decode_data(data)
              IN  IF fault = "open" \/ output_path.dir \notin ds
                  THEN except_handler(st2, files,
                                      IF fault = "open" THEN "open" ELSE "noparent", TRUE)
                  ELSE IF fault = "write"
                  THEN except_handler(st2, write_file(files, output_path, <<>>),
                                      "write", TRUE)
                  ELSE [stats |-> Inc(st2, "decoded_files"),
                        fs |-> write_file(files, output_path, decoded), msg |-> "DONE",
                        err |-> "none", read |-> TRUE, wrote |-> TRUE, raised |-> FALSE]

-----------------------------------------------------------------------------
\* Spec: the batch command

MaxInputs == 1
MaxRuns == 2

EncBuf == <<35, 226, 99, 40, 65>>
PlainBuf == <<0, 1, 2>>
Contents == {EncBuf, PlainBuf}

BrdName(stem) == stem \o <<".", "brd">>

\* d1 holds b.brd and, each or not, a.brd and a_decoded.brd; d2 holds a.brd
OptionalFiles == {Path("d1", BrdName(<<"a">>)), Path("d1", BrdName(<<"a", "_decoded">>))}

InitFileSystems ==
    UNION {{[p \in S \cup {Path("d1", BrdName(<<"b">>)), Path("d2", BrdName(<<"a">>))} |->
                IF p \in S THEN f[p]
                ELSE IF p.dir = "d2" THEN EncBuf ELSE b] :
              f \in [S -> Contents], b \in Contents} : S \in SUBSET OptionalFiles}

\* an input of the command line: a literal path (an empty name: the directory
\* itself) or the pattern  dir/*.brd
InputItems ==
    {[kind |-> "path", dir |-> "d1", name |-> <<>>],
     [kind |-> "path", dir |-> "d2", name |-> <<>>],
     [kind |-> "path", dir |-> "d1", name |-> BrdName(<<"a">>)],
     [kind |-> "glob", dir |-> "d1", name |-> <<>>]}

InputLists == SeqsUpTo(InputItems, MaxInputs) \ {<<>>}

Suffixes == {"_decoded"}

Init ==
    /\ pc = "main" /\ run = 1
    /\ args \in [inputs : InputLists, output : {None, "out"},
                 suffix : Suffixes, overwrite : BOOLEAN]
    /\ fs \in InitFileSystems
    /\ dirs = {"d1", "d2"}
    /\ directories = <<>> /\ all_files = <<>>
    /\ output_dir = None /\ brd_files = {}
    /\ stats = ZeroStats /\ log = {}
    /\ io_failed = FALSE /\ exit_code = None
    /\ InitByteIdle /\ InitBufIdle
    /\ InitToolIdle /\ InitGuiIdle

\* main, lines 198-213: the directories and the file groups the inputs give.
\* A group is the input's position with the files it stands for: one file for
\* a literal path, the matches (in no fixed order) for a pattern.
RECURSIVE resolve_inputs(_, _, _, _)
resolve_inputs(inputs, i, files, ds) ==
    IF i > Len(inputs) THEN [directories |-> <<>>, all_files |-> <<>>]
    ELSE LET rest == resolve_inputs(inputs, i + 1, files, ds)
             it == inputs[i]
             p == Path(it.dir, it.name)
         IN  IF it.kind = "glob"
             THEN LET expanded == glob_brd(files, it.dir)
                  IN  IF expanded # {}
                      THEN [rest EXCEPT !.all_files =
                                <<[item |-> i, files |-> expanded]>> \o @]
                      ELSE rest
             ELSE IF it.name = <<>> /\ it.dir \in ds
             THEN [rest EXCEPT !.directories = <<[item |-> i, dir |-> it.dir]>> \o @]
             ELSE IF p \in DOMAIN files
             THEN [rest EXCEPT !.all_files = <<[item |-> i, files |-> {p}]>> \o @]
             ELSE rest

AfterDirectories(left) == IF left # <<>> THEN "dirs" ELSE "files"

Resolve ==
    /\ pc = "main"
    /\ \E r \in {resolve_inputs(args.inputs, 1, fs, dirs)} :
           /\ directories' = r.directories
           /\ all_files' = r.all_files
           /\ pc' = AfterDirectories(r.directories)
    /\ UNCHANGED <<run, args, fs, dirs, output_dir, brd_files, stats, log,
                   io_failed, exit_code, byteVars, bufVars,
                   toolVars, guiVars>>

\* process_directory up to its loop (lines 90-111)
ProcessDirectoryEnter ==
    /\ pc = "dirs"
    /\ directories # <<>>
    /\ LET directory == Head(directories).dir
           odir == IF args.output # None THEN args.output ELSE directory
           found == glob_brd(fs, directory)
       IN  /\ directory \in dirs
           /\ dirs' = IF args.output # None THEN dirs \cup {args.output} ELSE dirs
           /\ output_dir' = odir
           /\ IF found = {}
                 THEN /\ brd_files' = {}
                      /\ directories' = Tail(directories)
                      /\ pc' = AfterDirectories(Tail(directories))
                 ELSE /\ brd_files' = found
                      /\ UNCHANGED directories
                      /\ pc' = "dirloop"
    /\ UNCHANGED <<run, args, fs, all_files, stats, log, io_failed, exit_code,
                   byteVars, bufVars,
                   toolVars, guiVars>>

\* the environment may fail any I/O call of decode_file; a failure of a call
\* that is never reached is no failure
FaultHits(fault, r) == fault = "none" \/ r.err = fault

Entry(item, input_path, output_path, r) ==
    [run |-> run, item |-> item, input |-> input_path, output |-> output_path,
     msg |-> r.msg, err |-> r.err, read |-> r.read, wrote |-> r.wrote]

\* one iteration of the loop of process_directory (lines 114-121), the
\* environment failing at most the I/O calls of FaultSet
DirIteration(FaultSet) ==
    /\ pc = "dirloop"
    /\ \E input_file \in brd_files, fault \in FaultSet :
          LET output_file == Path(output_dir, output_name(input_file.name, args.suffix))
              left == brd_files \ {input_file}
          IN  \E r \in {decode_file(Inc(stats, "total_files"), fs, dirs, input_file,
                                    output_file, args.overwrite, fault)} :
                 /\ FaultHits(fault, r)
                 /\ stats' = r.stats
                 /\ fs' = r.fs
                 /\ log' = log \cup {Entry(Head(directories).item, input_file, output_file, r)}
                 /\ io_failed' = (io_failed \/ fault # "none")
                 /\ IF r.raised
                       THEN /\ pc' = "aborted"
                            /\ exit_code' = 1
                            /\ UNCHANGED <<directories, brd_files>>
                       ELSE /\ brd_files' = left
                            /\ UNCHANGED exit_code
                            /\ IF left = {}
                                  THEN /\ directories' = Tail(directories)
                                       /\ pc' = AfterDirectories(Tail(directories))
                                  ELSE UNCHANGED <<directories, pc>>
    /\ UNCHANGED <<run, args, dirs, all_files, output_dir, byteVars, bufVars,
                   toolVars, guiVars>>

DirItem == DirIteration(Faults)

\* main, lines 222-223, and process_files up to its loop (lines 127-134)
ProcessFilesEnter ==
    /\ pc = "files"
    /\ IF all_files = <<>>
          THEN /\ pc' = "stats"
               /\ UNCHANGED <<dirs, output_dir>>
          ELSE /\ pc' = "fileloop"
               /\ output_dir' = args.output
               /\ dirs' = IF args.output # None THEN dirs \cup {args.output} ELSE dirs
    /\ UNCHANGED <<run, args, fs, directories, all_files, brd_files, stats, log,
                   io_failed, exit_code, byteVars, bufVars,
                   toolVars, guiVars>>

\* file_list without one file of its first group
WithoutFile(list, p) ==
    IF Head(list).files = {p} THEN Tail(list)
    ELSE <<[Head(list) EXCEPT !.files = @ \ {p}]>> \o Tail(list)

\* one iteration of the loop of process_files (lines 136-152)
FileIteration(FaultSet) ==
    /\ pc = "fileloop"
    /\ all_files # <<>>
    /\ \E input_path \in Head(all_files).files, fault \in FaultSet :
          LET st1 == Inc(stats, "total_files")
              oname == output_name(input_path.name, args.suffix)
              output_path == IF output_dir # None THEN Path(output_dir, oname)
                             ELSE Path(input_path.dir, oname)
              left == WithoutFile(all_files, input_path)
          IN  \E r \in {IF input_path \notin DOMAIN fs
                        THEN [stats |-> Inc(st1, "errors"), fs |-> fs, msg |-> "NOT_FOUND",
                              err |-> "none", read |-> FALSE, wrote |-> FALSE,
                              raised |-> FALSE]
                        ELSE decode_file(st1, fs, dirs, input_path, output_path,
                                         args.overwrite, fault)} :
                 /\ FaultHits(fault, r)
                 /\ stats' = r.stats
                 /\ fs' = r.fs
                 /\ log' = log \cup {Entry(Head(all_files).item, input_path,
                                           IF r.msg = "NOT_FOUND" THEN NoPath ELSE output_path, r)}
                 /\ io_failed' = (io_failed \/ fault # "none")
                 /\ IF r.raised
                       THEN /\ pc' = "aborted"
                            /\ exit_code' = 1
                            /\ UNCHANGED all_files
                       ELSE /\ all_files' = left
                            /\ UNCHANGED exit_code
                            /\ pc' = IF left = <<>> THEN "stats" ELSE "fileloop"
    /\ UNCHANGED <<run, args, dirs, directories, output_dir, brd_files,
                   byteVars, bufVars,
                   toolVars, guiVars>>

FileItem == FileIteration(Faults)

\* an exit status that also reports skipped items
exit_status_skipped(st) == IF st.errors > 0 \/ st.skipped > 0 THEN 1 ELSE 0

\* lines 231-232: if decoder.stats['errors'] > 0: sys.exit(1); falling off the
\* end of main is status 0
exit_status(st) == IF st.errors > 0 THEN 1 ELSE 0

\* main, lines 225-232: print_stats and the exit status
Finish ==
    /\ pc = "stats"
    /\ exit_code' = exit_status(stats)
    /\ pc' = "done"
    /\ UNCHANGED <<run, args, fs, dirs, directories, all_files, output_dir, brd_files,
                   stats, log, io_failed, byteVars, bufVars,
                   toolVars, guiVars>>

\* the user runs the same command line again: a new process, a new decoder
Rerun ==
    /\ pc = "done"
    /\ run < MaxRuns
    /\ run' = run + 1
    /\ pc' = "main"
    /\ stats' = ZeroStats
    /\ exit_code' = None
    /\ output_dir' = None
    /\ log' = {}
    /\ UNCHANGED <<args, fs, dirs, directories, all_files, brd_files, io_failed,
                   byteVars, bufVars,
                   toolVars, guiVars>>

Next ==
    \/ Resolve
    \/ ProcessDirectoryEnter
    \/ DirItem
    \/ ProcessFilesEnter
    \/ FileItem
    \/ Finish

\* one invocation of the command, any I/O call of decode_file failing or not
Spec == Init /\ [][Next]_vars

\* the iterations when no I/O call fails
DirItemReliable == DirIteration({"none"})

FileItemReliable == FileIteration({"none"})

NextRerun ==
    \/ Resolve
    \/ ProcessDirectoryEnter
    \/ DirItemReliable
    \/ ProcessFilesEnter
    \/ FileItemReliable
    \/ Finish
    \/ Rerun

\* the command run again and again on the files it left, no I/O call failing
SpecRerun == Init /\ [][NextRerun]_vars

-----------------------------------------------------------------------------
\* brd_decrypt.py: BRDDecryptor.analyze_decoded_content

\* bytes.decode('utf-8', errors='ignore') from position i on, as code points:
\* an ASCII byte is its own character, a lead byte C2..DF with a continuation
\* byte 80..BF after it is one character, and a byte that starts no well-formed
\* sequence (a continuation byte alone, C0, C1, F5..FF, a lead byte without its
\* continuation) is dropped. The lead bytes E0..F4 of the three- and four-byte
\* forms are outside the buffers analysed here.
RECURSIVE utf8_ignore(_, _)
utf8_ignore(data, i) ==
    IF i > Len(data) THEN <<>>
    ELSE LET b == data[i] IN
         CASE b < 128 -> <<b>> \o utf8_ignore(data, i + 1)
           [] b \in 194 .. 223 ->
                IF i < Len(data) /\ data[i + 1] \in 128 .. 191
                THEN <<(b - 192) * 64 + (data[i + 1] - 128)>> \o utf8_ignore(data, i + 2)
                ELSE utf8_ignore(data, i + 1)
           [] b \in (128 .. 193) \cup (245 .. 255) -> utf8_ignore(data, i + 1)

\* str.isprintable() of one character, for the characters up to U+00FF: the
\* ASCII controls, DEL, the C1 controls, the no-break space and the soft hyphen
\* are not printable
isprintable(c) ==
    CASE c < 256 -> c \in (32 .. 126) \cup ((161 .. 255) \ {173})

\* section in text_content
str_contains(text, section) ==
    \E i \in 1 .. Len(text) - Len(section) + 1 :
        SubSeq(text, i, i + Len(section) - 1) = section

\* the section names, as the characters they are made of
var_data_ == <<118, 97, 114, 95, 100, 97, 116, 97, 58>>
Format_ == <<70, 111, 114, 109, 97, 116, 58>>
format_ == <<102, 111, 114, 109, 97, 116, 58>>
Parts_ == <<80, 97, 114, 116, 115, 58>>
Pins1_ == <<80, 105, 110, 115, 49, 58>>
Pins_ == <<80, 105, 110, 115, 58>>
Pins2_ == <<80, 105, 110, 115, 50, 58>>
Nails_ == <<78, 97, 105, 108, 115, 58>>
OUTLINE_ == <<79, 85, 84, 76, 73, 78, 69, 58>>
NETS_ == <<78, 69, 84, 83, 58>>
BRDOUT_ == <<66, 82, 68, 79, 85, 84, 58>>

common_sections ==
    {var_data_, Format_, format_, Parts_, Pins1_, Pins_, Pins2_, Nails_, OUTLINE_, NETS_,
     BRDOUT_}

\* the verdict with the threshold itself counted as plausible
appears_valid_at_threshold(sections_found, printable_chars, length) ==
    sections_found # {} /\ length > 0 /\ 10 * printable_chars >= 7 * length

\* len(sections_found) > 0 and printable_ratio > 0.7, the ratio being
\* printable_chars / length, or 0 for an empty text. The quotient of two
\* integers below 2^50 is above the float 0.7 exactly when it is above 7/10.
appears_valid(sections_found, printable_chars, length) ==
    sections_found # {} /\ length > 0 /\ 10 * printable_chars > 7 * length

\* the dictionary analyze_decoded_content returns; printable_ratio is kept as
\* the pair <<numerator, denominator>>. bytes.decode with errors='ignore' raises
\* nothing on a byte buffer, so the except clause is never entered for one.
analyze_decoded_content(decoded) ==
    LET text_content == utf8_ignore(decoded, 1)
        sections_found == {section \in common_sections : str_contains(text_content, section)}
        printable_chars ==
            Cardinality({i \in DOMAIN text_content :
                            isprintable(text_content[i]) \/ text_content[i] \in {13, 10, 9}})
    IN  [sections_found |-> sections_found,
         printable_ratio |-> IF text_content # <<>>
                             THEN <<printable_chars, Len(text_content)>>
                             ELSE <<0, 1>>,
         line_count |-> Cardinality({i \in DOMAIN text_content : text_content[i] = 10}),
         appears_valid |-> appears_valid(sections_found, printable_chars, Len(text_content))]

-----------------------------------------------------------------------------
\* SpecAnalyze: analyze_decoded_content applied to one buffer

MaxChunks == 2

\* the pieces the analysed buffers are put together from: the section names,
\* a letter, a control byte, three control bytes, a line feed, a byte that is
\* not UTF-8, and a two-byte character
Chunks ==
    common_sections \cup {<<120>>, <<1>>, <<1, 1, 1>>, <<10>>, <<255>>, <<195, 169>>}

RECURSIVE Flatten(_)
Flatten(seqs) == IF seqs = <<>> THEN <<>> ELSE Head(seqs) \o Flatten(Tail(seqs))

AnalysisBuffers == {Flatten(cs) : cs \in SeqsUpTo(Chunks, MaxChunks)}

InitAnalyze ==
    /\ tpc = "analyze"
    /\ t_input \in AnalysisBuffers
    /\ t_output = None
    /\ t_analysis = None /\ t_written = {} /\ t_ret = None
    /\ s_written = {} /\ s_found = None
    /\ InitByteIdle /\ InitBufIdle /\ InitBatchIdle /\ InitGuiIdle

AnalyzeDecodedContent ==
    /\ tpc = "analyze"
    /\ t_analysis' = analyze_decoded_content(t_input)
    /\ tpc' = "analyzed"
    /\ UNCHANGED <<t_input, t_output, t_written, t_ret, s_written, s_found,
                   byteVars, bufVars, batchVars, guiVars>>

NextAnalyze == AnalyzeDecodedContent

SpecAnalyze == InitAnalyze /\ [][NextAnalyze]_vars

-----------------------------------------------------------------------------
\* brd_decrypt.py: BRDDecryptor.decrypt_file; simple_brd_decode.py: decode_brd_file

\* BRDDecryptor.decode_file on a whole buffer
decode_buffer(file_data) ==
    IF ~ is_encoded(file_data) THEN file_data
    ELSE [i \in 1 .. Len(file_data) |-> decode_byte(file_data[i])]

\* decrypt_file writing the output only when the analysis finds it valid
decrypt_file_gated(file_data, output_path) ==
    IF ~ is_encoded(file_data)
    THEN [written |-> IF output_path # None THEN {file_data} ELSE {},
          analysis |-> None, ret |-> FALSE]
    ELSE LET decoded == decode_buffer(file_data)
             analysis == analyze_decoded_content(decoded)
         IN  [written |-> IF output_path # None /\ analysis.appears_valid
                          THEN {decoded} ELSE {},
              analysis |-> analysis, ret |-> analysis.appears_valid]

\* decrypt_file on an input file that exists and holds file_data: what it
\* leaves at output_path (nothing, or one content), the analysis, the value
\* returned
decrypt_file(file_data, output_path) ==
    IF ~ is_encoded(file_data)
    THEN [written |-> IF output_path # None THEN {file_data} ELSE {},
          analysis |-> None, ret |-> FALSE]
    ELSE LET decoded == decode_buffer(file_data)
             analysis == analyze_decoded_content(decoded)
         IN  [written |-> IF output_path # None THEN {decoded} ELSE {},
              analysis |-> analysis, ret |-> analysis.appears_valid]

brd_sections == {var_data_, Format_, Parts_, Pins_, Nails_}

\* decode_brd_file on an input file that holds data, no I/O call failing: what
\* it leaves at output_file, and found_sections (None when it only copies)
decode_brd_file(data) ==
    IF ~ simple_is_brd_encoded(data)
    THEN [written |-> {data}, found |-> None]
    ELSE LET decoded == [i \in 1 .. Len(data) |-> simple_decode_brd_byte(data[i])]
             text_content == utf8_ignore(decoded, 1)
         IN  [written |-> {decoded},
              found |-> {section \in brd_sections : str_contains(text_content, section)}]

-----------------------------------------------------------------------------
\* SpecDecrypt: each single-file tool run once on the same input file

\* the byte that decode_byte turns into d, for the values some byte gives
encoded_byte(d) == (((255 - d) % 4) * 64) + ((255 - d) \div 4)

\* an encoded file whose payload decodes to the given bytes
EncodedFile(payload) ==
    ENCODED_SIGNATURE \o [i \in 1 .. Len(payload) |-> encoded_byte(payload[i])]

InputFiles == AnalysisBuffers \cup {EncodedFile(p) : p \in AnalysisBuffers}

InitDecrypt ==
    /\ tpc = "decrypt"
    /\ t_input \in InputFiles
    /\ t_output \in {None, "out.brd"}
    /\ t_analysis = None /\ t_written = {} /\ t_ret = None
    /\ s_written = {} /\ s_found = None
    /\ InitByteIdle /\ InitBufIdle /\ InitBatchIdle /\ InitGuiIdle

DecryptFile ==
    /\ tpc = "decrypt"
    /\ \E r \in {decrypt_file(t_input, t_output)} :
          /\ t_written' = r.written
          /\ t_analysis' = r.analysis
          /\ t_ret' = r.ret
    /\ tpc' = "simple"
    /\ UNCHANGED <<t_input, t_output, s_written, s_found,
                   byteVars, bufVars, batchVars, guiVars>>

DecodeBrdFile ==
    /\ tpc = "simple"
    /\ \E r \in {decode_brd_file(t_input)} :
          /\ s_written' = r.written
          /\ s_found' = r.found
    /\ tpc' = "done"
    /\ UNCHANGED <<t_input, t_output, t_analysis, t_written, t_ret,
                   byteVars, bufVars, batchVars, guiVars>>

NextDecrypt == DecryptFile \/ DecodeBrdFile

SpecDecrypt == InitDecrypt /\ [][NextDecrypt]_vars

-----------------------------------------------------------------------------
\* SpecGui: brd_decoder_gui.py, the user pressing buttons while workers run

MaxClicks == 2

\* the names the user can give in the dialogs: an encoded file, a plain file,
\* and a name no file has
GuiInputNames == {BrdName(<<"a">>), BrdName(<<"p">>), BrdName(<<"gone">>)}

GuiOutputNames == {BrdName(<<"out">>)}

InitGui ==
    /\ input_var = <<>> /\ output_var = <<>>
    /\ auto_output = TRUE
    /\ threads = <<>> /\ after_queue = 0
    /\ progress_shown = FALSE
    /\ dialog = None
    /\ gui_fs = [n \in {BrdName(<<"a">>), BrdName(<<"p">>)} |->
                    IF n = BrdName(<<"a">>) THEN EncBuf ELSE PlainBuf]
    /\ InitByteIdle /\ InitBufIdle /\ InitBatchIdle /\ InitToolIdle

\* browse_input, and update_output_filename when the checkbox is set
BrowseInput ==
    /\ \E filename \in GuiInputNames :
          /\ input_var' = filename
          /\ output_var' = IF auto_output THEN output_name(filename, "_decoded")
                           ELSE output_var
    /\ UNCHANGED <<auto_output, threads, after_queue, progress_shown, dialog, gui_fs,
                   byteVars, bufVars, batchVars, toolVars>>

\* browse_output
BrowseOutput ==
    /\ \E filename \in GuiOutputNames :
          /\ output_var' = filename
          /\ auto_output' = FALSE
    /\ UNCHANGED <<input_var, threads, after_queue, progress_shown, dialog, gui_fs,
                   byteVars, bufVars, batchVars, toolVars>>

\* the "Decode File" button: decode_file
ClickDecode ==
    /\ Len(threads) < MaxClicks
    /\ IF input_var = <<>>
          THEN /\ dialog' = "Please select an input file"
               /\ UNCHANGED <<threads, progress_shown>>
          ELSE IF output_var = <<>>
          THEN /\ dialog' = "Please specify an output file"
               /\ UNCHANGED <<threads, progress_shown>>
          ELSE IF input_var \notin DOMAIN gui_fs
          THEN /\ dialog' = "Input file does not exist"
               /\ UNCHANGED <<threads, progress_shown>>
          ELSE /\ progress_shown' = TRUE
               /\ threads' = Append(threads, [pc |-> "started", input_file |-> <<>>,
                                              output_file |-> <<>>, data |-> <<>>])
               /\ UNCHANGED dialog
    /\ UNCHANGED <<input_var, output_var, auto_output, after_queue, gui_fs,
                   byteVars, bufVars, batchVars, toolVars>>

\* decode_file_worker, lines 236-242: the paths are read from the entry fields
\* by the thread itself, then the input is read
WorkerRead(t) ==
    /\ threads[t].pc = "started"
    /\ IF input_var \in DOMAIN gui_fs
          THEN threads' = [threads EXCEPT ![t] =
                              [pc |-> "read", input_file |-> input_var,
                               output_file |-> output_var, data |-> gui_fs[input_var]]]
          ELSE threads' = [threads EXCEPT ![t] =
                              [pc |-> "finally", input_file |-> input_var,
                               output_file |-> output_var, data |-> <<>>]]
    /\ dialog' = IF input_var \in DOMAIN gui_fs THEN dialog ELSE "Decoding failed"
    /\ UNCHANGED <<input_var, output_var, auto_output, after_queue, progress_shown, gui_fs,
                   byteVars, bufVars, batchVars, toolVars>>

\* lines 249-256 and 262-272: the bytes to write are made ready and the output
\* is opened for writing, which creates or empties it
WorkerOpenOutput(t) ==
    /\ threads[t].pc = "read"
    /\ threads' = [threads EXCEPT ![t].pc = "writing",
                                  ![t].data = IF is_brd_encoded(@) THEN decode_data(@) ELSE @]
    /\ gui_fs' = [n \in (DOMAIN gui_fs) \cup {threads[t].output_file} |->
                     IF n = threads[t].output_file THEN <<>> ELSE gui_fs[n]]
    /\ UNCHANGED <<input_var, output_var, auto_output, after_queue, progress_shown, dialog,
                   byteVars, bufVars, batchVars, toolVars>>

\* f.write(...) and the end of the with block, then the message boxes
WorkerWriteOutput(t) ==
    /\ threads[t].pc = "writing"
    /\ gui_fs' = [gui_fs EXCEPT ![threads[t].output_file] = @ \o threads[t].data]
    /\ threads' = [threads EXCEPT ![t].pc = "finally"]
    /\ dialog' = "Complete"
    /\ UNCHANGED <<input_var, output_var, auto_output, after_queue, progress_shown,
                   byteVars, bufVars, batchVars, toolVars>>

\* finally: self.root.after(0, self.decode_finished)
WorkerFinally(t) ==
    /\ threads[t].pc = "finally"
    /\ threads' = [threads EXCEPT ![t].pc = "exited"]
    /\ after_queue' = after_queue + 1
    /\ UNCHANGED <<input_var, output_var, auto_output, progress_shown, dialog, gui_fs,
                   byteVars, bufVars, batchVars, toolVars>>

\* the main loop runs a scheduled decode_finished
DecodeFinished ==
    /\ after_queue > 0
    /\ after_queue' = after_queue - 1
    /\ progress_shown' = FALSE
    /\ UNCHANGED <<input_var, output_var, auto_output, threads, dialog, gui_fs,
                   byteVars, bufVars, batchVars, toolVars>>

WorkerStep ==
    \E t \in DOMAIN threads :
        \/ WorkerRead(t)
        \/ WorkerOpenOutput(t)
        \/ WorkerWriteOutput(t)
        \/ WorkerFinally(t)

NextGui ==
    \/ BrowseInput
    \/ BrowseOutput
    \/ ClickDecode
    \/ WorkerStep
    \/ DecodeFinished

SpecGui == InitGui /\ [][NextGui]_vars

-----------------------------------------------------------------------------
\* Claims about the codec

ControlBytes == {13, 10, 0}

\* the transform of the claim, written arithmetically: the low six bits moved up
\* by two, the top two bits moved to the bottom, the whole complemented in 8 bits
ArithDecode(b) == 255 - (((b * 4) % 256) + (b \div 64))

ByteResultOk(b, d) ==
    /\ d \in Bytes
    /\ (b \in ControlBytes => d = b)
    /\ (b \notin ControlBytes => d = ArithDecode(b))
    /\ (b = 65 => d = 250)

\* C1: for every byte b, decode_byte(b) is b for CR, LF and NUL and otherwise
\* the 8-bit complement of ((b >> 6) & 3) | ((b << 2) & 0xFF); decode_byte(0x41) =
\* 0xFA; the result is a byte. The same holds of every front end's copy.
C1_DecodeByteFormula ==
    bpc # "first" =>
        /\ ByteResultOk(byte_a, dec_a)
        /\ ByteResultOk(byte_a, dec_batch)
        /\ ByteResultOk(byte_a, dec_simple)

C1_Witness == bpc = "second" /\ byte_a = 65 /\ dec_a = 250

\* C4 as stated: decode_byte is injective over all 256 byte values.
C4_InjectiveAllBytes ==
    (bpc = "done" /\ byte_a # byte_b) => dec_a # dec_b

\* C4 amended: two distinct bytes decode to the same byte only when one of them
\* is a pass-through byte and the other the byte whose transform is that value
\* (0x00 and 0xFF, 0x0A and 0x7D, 0x0D and 0xBC); in particular decode_byte is
\* injective over the 253 bytes that are not passed through.
C4_InjectiveOffControl ==
    (bpc = "done" /\ byte_a # byte_b /\ dec_a = dec_b) =>
        {byte_a, byte_b} \in {{0, 255}, {10, 125}, {13, 188}}

C4_Witness ==
    /\ bpc = "done"
    /\ byte_a = 65 /\ byte_b = 66
    /\ dec_a # dec_b

SignatureAt(data) ==
    /\ Len(data) >= 4
    /\ data[1] = 35 /\ data[2] = 226 /\ data[3] = 99 /\ data[4] = 40

\* C2: decode_file returns a buffer as long as its input; the input itself when
\* it does not start with the signature, and otherwise decode_byte of every
\* input byte, the four signature bytes included (they come out as 73 74 72 5F).
C2_DecodeBufferContract ==
    fpc = "returned" =>
        /\ Len(ret_data) = Len(caller_data)
        /\ (~ SignatureAt(caller_data) => ret_data = caller_data)
        /\ (SignatureAt(caller_data) =>
               /\ \A i \in 1 .. Len(caller_data) : ret_data[i] = decode_byte(caller_data[i])
               /\ SubSeq(ret_data, 1, 4) = <<115, 116, 114, 95>>)

C2_Witness ==
    /\ fpc = "returned"
    /\ caller_data = <<35, 226, 99, 40, 65>>
    /\ ret_data = <<115, 116, 114, 95, 250>>

\* C3: is_encoded is true exactly for buffers of at least four bytes that start
\* 23 E2 63 28 (false for every shorter buffer), and leaves the buffer as it was.
C3_IsEncodedIff ==
    fpc # "check" =>
        /\ enc_flag = SignatureAt(caller_data)
        /\ enc_simple = SignatureAt(caller_data)
        /\ (Len(caller_data) < 4 => enc_flag = FALSE)
        /\ input_data = caller_data

C3_Witness ==
    /\ fpc = "call"
    /\ enc_flag = TRUE
    /\ Len(caller_data) = 4

\* C18: decoding is idempotent on buffers: a buffer that decode_file returned,
\* given to it again, comes back unchanged, because it never starts with the
\* signature 23 E2 63 28 and so every front end classifies it as not encoded.
C18_DecodeIdempotent ==
    \A first \in first_ret :
        /\ ~ SignatureAt(first)
        /\ caller_data = first
        /\ ~ is_brd_encoded(first)
        /\ (fpc # "check" => enc_flag = FALSE /\ enc_simple = FALSE)
        /\ (fpc = "returned" => ret_data = first)

C18_Witness ==
    /\ fpc = "returned"
    /\ first_ret = {<<115, 116, 114, 95, 250>>}
    /\ ret_data = <<115, 116, 114, 95, 250>>

-----------------------------------------------------------------------------
\* Claims about the batch command

\* the lines an iteration has just printed
NewEntries == log' \ log

SkipMessages == {"SKIP_EXISTS", "SKIP_NOT_ENCODED"}

\* C5: an item whose derived output path exists while overwrite is off ends as
\* skipped: skipped (and total) go up by one and nothing else, the input is not
\* opened, the output is not opened, and no file changes.
C5_SkipExistingOutput ==
    [][\A e \in NewEntries :
          (e.output \in DOMAIN fs /\ ~ args.overwrite) =>
              /\ e.msg = "SKIP_EXISTS"
              /\ stats' = [stats EXCEPT !.total_files = @ + 1, !.skipped = @ + 1]
              /\ e.read = FALSE
              /\ e.wrote = FALSE
              /\ fs' = fs]_vars

C5_Witness ==
    \E e \in log :
        /\ e.msg = "SKIP_EXISTS"
        /\ e.input \in DOMAIN fs /\ is_brd_encoded(fs[e.input])
        /\ stats.skipped >= 1

\* C6: an item that passes the existence guard, is read and is not encoded
\* leaves the derived output path holding the input's bytes.
C6_PlainInputCopied ==
    [][\A e \in NewEntries :
          (e.read /\ e.err = "none" /\ ~ SignatureAt(fs[e.input])) =>
              /\ e.output \in DOMAIN fs'
              /\ fs'[e.output] = fs[e.input]]_vars

\* the (input position, file) pairs the run has still to process in its
\* current loop and in process_files
WorkLeft ==
    (IF pc = "dirloop" THEN {<<Head(directories).item, p>> : p \in brd_files} ELSE {})
    \cup UNION {{<<all_files[k].item, p>> : p \in all_files[k].files} :
                  k \in DOMAIN all_files}

C8_StatsByTerminalState ==
    pc = "done" =>
        /\ stats.total_files = Cardinality(log)
        /\ stats.skipped = Cardinality({e \in log : e.msg = "SKIP_EXISTS"})
        /\ stats.decoded_files = Cardinality({e \in log : e.msg = "DONE"})
        /\ stats.errors = Cardinality({e \in log : e.msg \in {"ERROR", "NOT_FOUND"}})

\* the command line of C9: one directory, outputs beside the inputs, the
\* default suffix, overwrite off
DirectoryDefaults ==
    /\ Len(args.inputs) = 1
    /\ args.inputs[1].kind = "path" /\ args.inputs[1].name = <<>>
    /\ args.output = None
    /\ args.suffix = "_decoded"
    /\ ~ args.overwrite

C10_MissingLiteralCounted ==
    pc = "done" =>
        \A i \in DOMAIN args.inputs :
            LET it == args.inputs[i] IN
            (it.kind = "path" /\ it.name # <<>> /\ Path(it.dir, it.name) \notin DOMAIN fs) =>
                /\ \E e \in log : e.item = i /\ e.msg = "NOT_FOUND"
                /\ stats.errors >= 1
                /\ stats.total_files >= 1

\* the items of the run that ended as errors
Errored == {e \in log : e.msg \in {"ERROR", "NOT_FOUND"}}

\* C11: when the command completes, its exit status is non-zero exactly when at
\* least one file ended as an error; items that were skipped (output present, or
\* input not encoded) do not change it.
C11_ExitStatusIffErrored ==
    pc = "done" =>
        /\ exit_code \in {0, 1}
        /\ (exit_code # 0) <=> (Errored # {})
        /\ (\A e \in log : e.msg \in SkipMessages \cup {"DONE"}) => exit_code = 0

C11_Witness ==
    /\ pc = "done"
    /\ exit_code = 1
    /\ \E e \in log : e.msg = "ERROR"
    /\ \E e \in log : e.msg = "SKIP_NOT_ENCODED"

C11_WitnessZero ==
    /\ pc = "done"
    /\ exit_code = 0
    /\ \E e \in log : e.msg = "SKIP_EXISTS"
    /\ \E e \in log : e.msg = "SKIP_NOT_ENCODED"

\* C12: the output of a resolved input named stem + ext is named
\* stem + suffix + ext; it lies in the output directory when one is given and
\* otherwise in the input's own directory. This holds for the files a directory
\* gives and for the files listed (or matched by a pattern) alike.
C12_OutputPathDerivation ==
    \A e \in log :
        LET n == e.input.name
            k == Len(n)
        IN  (e.msg # "NOT_FOUND" /\ k >= 3 /\ n[k - 1] = ".") =>
                /\ e.output.name = SubSeq(n, 1, k - 2) \o <<args.suffix>> \o <<".", n[k]>>
                /\ e.output.dir = (IF args.output # None THEN args.output ELSE e.input.dir)

C12_Witness ==
    /\ args.output = "out"
    /\ args.inputs[1].kind = "path" /\ args.inputs[1].name = <<>>
    /\ \E e \in log :
          /\ e.input = Path("d1", <<"a", "_decoded", ".", "brd">>)
          /\ e.output = Path("out", <<"a", "_decoded", "_decoded", ".", "brd">>)
          /\ e.msg = "DONE"

C12_WitnessBeside ==
    /\ args.output = None
    /\ args.inputs[1].kind = "path" /\ args.inputs[1].name # <<>>
    /\ \E e \in log :
          /\ e.input = Path("d1", <<"a", ".", "brd">>)
          /\ e.output = Path("d1", <<"a", "_decoded", ".", "brd">>)

-----------------------------------------------------------------------------
\* Claims about the single-file tools

\* the textual view of the analysed buffer
TextView == utf8_ignore(t_input, 1)

Occurs(keyword, text) ==
    \E pre, post \in 0 .. Len(text) :
        /\ pre + Len(keyword) + post = Len(text)
        /\ \A j \in 1 .. Len(keyword) : text[pre + j] = keyword[j]

\* the characters of the text that are printable or CR, LF, TAB
PrintableCount(text) ==
    Cardinality({i \in DOMAIN text :
                    \/ text[i] \in 32 .. 126
                    \/ text[i] \in {9, 10, 13}
                    \/ (text[i] >= 161 /\ text[i] # 173)})

\* the verdict the claim describes, over a keyword set
PlausibleOver(keywords) ==
    /\ \E k \in keywords : Occurs(k, TextView)
    /\ 10 * PrintableCount(TextView) > 7 * Len(TextView)

\* C13 as stated: the verdict is true exactly when one of Format:, Parts:,
\* Pins:, Nails:, NETS:, OUTLINE:, var_data: occurs in the textual view and more
\* than 7/10 of its characters are printable or CR, LF, TAB.
C13_PlausibleSevenKeywords ==
    tpc = "analyzed" =>
        t_analysis.appears_valid =
            PlausibleOver({Format_, Parts_, Pins_, Nails_, NETS_, OUTLINE_, var_data_})

\* C13 amended: analyze_decoded_content returns for every buffer, and its
\* verdict is true exactly when one of the eleven section names var_data:,
\* Format:, format:, Parts:, Pins1:, Pins:, Pins2:, Nails:, OUTLINE:, NETS:,
\* BRDOUT: occurs in the textual view and more than 7/10 of its characters are
\* printable or CR, LF, TAB; the ratio of an empty textual view is 0 and its
\* verdict false.
C13_PlausibleElevenKeywords ==
    tpc = "analyzed" =>
        /\ t_analysis.appears_valid =
               PlausibleOver({var_data_, Format_, format_, Parts_, Pins1_, Pins_, Pins2_,
                              Nails_, OUTLINE_, NETS_, BRDOUT_})
        /\ t_analysis.sections_found \subseteq common_sections
        /\ t_analysis.printable_ratio[1] * Len(TextView) =
               PrintableCount(TextView) * t_analysis.printable_ratio[2]
        /\ (TextView = <<>> =>
               /\ t_analysis.printable_ratio = <<0, 1>>
               /\ ~ t_analysis.appears_valid)

\* a section name and three control characters: a ratio of exactly 7/10
C13_Witness ==
    /\ tpc = "analyzed"
    /\ t_input = Format_ \o <<1, 1, 1>>
    /\ t_analysis.sections_found = {Format_}
    /\ t_analysis.printable_ratio = <<7, 10>>
    /\ ~ t_analysis.appears_valid

C13_WitnessPlausible ==
    /\ tpc = "analyzed"
    /\ t_input = <<255>> \o NETS_
    /\ TextView = NETS_
    /\ t_analysis.appears_valid

\* every byte of the input file decoded on its own
BytewiseDecoded == [i \in 1 .. Len(t_input) |-> decode_byte(t_input[i])]

\* C14: for an encoded input that is read and has an output path, the output
\* path holds the decoded buffer, byte for byte and in full, whether the
\* analysis finds it plausible or not; the simple decoder, which always has an
\* output path, does the same.
C14_VerdictNeverGatesWriting ==
    /\ (tpc \in {"simple", "done"} /\ SignatureAt(t_input) /\ t_output # None) =>
           /\ t_written = {BytewiseDecoded}
           /\ t_ret \in BOOLEAN
    /\ (tpc = "done" /\ SignatureAt(t_input)) => s_written = {BytewiseDecoded}

\* not plausible, and the decoded bytes are more than their textual view
C14_Witness ==
    /\ tpc = "done"
    /\ SignatureAt(t_input)
    /\ t_output # None
    /\ t_ret = FALSE
    /\ s_found = {}
    /\ \E w \in t_written : Len(utf8_ignore(w, 1)) < Len(w)
    /\ t_written = s_written

C14_WitnessPlausible ==
    /\ tpc = "done"
    /\ SignatureAt(t_input)
    /\ t_output # None
    /\ t_ret = TRUE
    /\ t_written = {<<115, 116, 114, 95>> \o NETS_}

-----------------------------------------------------------------------------
\* Claims about the GUI

\* the workers that have been started and have not yet left decode_file_worker
InFlight == {t \in DOMAIN threads : threads[t].pc # "exited"}

\* the workers that hold the output file open for writing
Writing == {t \in DOMAIN threads : threads[t].pc = "writing"}

\* C15: whatever the user presses, at most one decode worker is in flight, and
\* no two workers have the same output path open at the same time.
C15_OneDecodeInFlight ==
    /\ Cardinality(InFlight) <= 1
    /\ \A t1, t2 \in Writing :
           threads[t1].output_file = threads[t2].output_file => t1 = t2

-----------------------------------------------------------------------------
\* Claims about the bit manipulation

\* bit i of x, bit 0 being the lowest
BitOf(x, i) == (x \div (2 ^ i)) % 2

\* the 8-bit rotation of b to the left by two: bit i of the result is bit
\* i - 2 (modulo 8) of b, so the two highest bits wrap round to the bottom
RotateLeft2(b) ==
    BitOf(b, 6) + 2 * BitOf(b, 7) + 4 * BitOf(b, 0) + 8 * BitOf(b, 1)
        + 16 * BitOf(b, 2) + 32 * BitOf(b, 3) + 64 * BitOf(b, 4) + 128 * BitOf(b, 5)

\* C16 as stated: combined = ((b >> 6) & 3) | ((b << 2) & 0xFF) differs from the
\* 8-bit rotation of b to the left by two for at least one byte b, the two
\* highest bits of b having no influence on it: two bytes that differ in their
\* two highest bits only give the same combined.
C16_ShiftDiffersFromRotate ==
    /\ \E b \in Bytes : combined_bits(b) # RotateLeft2(b)
    /\ (bpc = "done" /\ byte_a % 64 = byte_b % 64) =>
           combined_bits(byte_a) = combined_bits(byte_b)

\* C16 amended: for every byte that decode_byte transforms, combined is the
\* 8-bit rotation of the byte to the left by two; the two highest bits are not
\* lost, they are the two lowest bits of combined.
C16_CombinedIsRotate ==
    (bpc # "first" /\ byte_a \notin ControlBytes) =>
        /\ comb_a = RotateLeft2(byte_a)
        /\ comb_a % 4 = byte_a \div 64
        /\ dec_a = 255 - comb_a

C16_Witness ==
    /\ bpc = "second"
    /\ byte_a = 193
    /\ comb_a = 7
    /\ dec_a = 248

-----------------------------------------------------------------------------
\* Claims about the counters and the paths of a run

\* C17: between any two items of a run, total_files = skipped + decoded_files +
\* errors and decoded_files <= encoded_files <= total_files; every item
\* processed so far is counted in exactly one of skipped, decoded_files, errors.
C17_CounterInvariant ==
    /\ stats.total_files = stats.skipped + stats.decoded_files + stats.errors
    /\ stats.decoded_files <= stats.encoded_files
    /\ stats.encoded_files <= stats.total_files
    /\ stats.total_files = Cardinality(log)
    /\ stats.skipped = Cardinality({e \in log : e.msg \in SkipMessages})
    /\ stats.decoded_files = Cardinality({e \in log : e.msg = "DONE"})
    /\ stats.errors = Cardinality(Errored)

\* between two items of a directory: one decoded, one failed after it was found
\* encoded, one skipped, one still to come
C17_Witness ==
    /\ pc = "dirloop" /\ brd_files # {}
    /\ stats.total_files = 2
    /\ stats.encoded_files = 2
    /\ stats.decoded_files = 1
    /\ stats.errors = 1

\* the items of the run for which an output path was derived
Derived == {e \in log : e.msg # "NOT_FOUND"}

\* C19: in one run two distinct input files never derive the same output path,
\* and no derived output path is one of the run's input files.
C19_NoPathCollision ==
    pc = "done" =>
        /\ \A e1, e2 \in Derived : e1.input # e2.input => e1.output # e2.output
        /\ \A e1, e2 \in Derived : e1.output # e2.input

====
